---- MODULE Spec2Model ----
(***************************************************************************)
(* A model of the asynchronous task execution, provider abstraction and   *)
(* text sanitisation of the AI backend (translation / summary service).   *)
(*                                                                         *)
(* Texts are sequences of characters over a small alphabet that has one   *)
(* representative of every character class the code distinguishes.        *)
(* Non-ASCII literals of the source are written as ASCII stand-ins:       *)
(*   "zhongwen" = the language name U+4E2D U+6587, "yingwen" = U+82F1      *)
(*   U+6587, "moni" = the mock marker U+6A21 U+62DF, "zongjie" = U+603B    *)
(*   U+7ED3.                                                               *)
(***************************************************************************)
EXTENDS Naturals, Sequences, FiniteSets

VARIABLES
    config,           \* config.settings.config: AI_PROVIDER and the API keys
    provider,         \* AIService.provider (None when selection failed)
    client,           \* RedisClient: "uninit", "redis" (self.client set) or "memory" (self.client None)
    redisData,        \* content of the external key-value store
    memory_storage,   \* RedisClient._memory_storage
    pc,               \* per task: position of submit / background execution
    path,             \* per task: which code executes it ("router" or "service")
    req,              \* per task: the request payload handed to the background function
    ret,              \* per task: what the AI call of the execution returned or raised
    clock,            \* per task: number of datetime.now() readings so far
    written,          \* per task: statuses persisted so far, in order (history)
    failures,         \* number of calls to the external store that have failed
    lastSync,         \* outcome of the latest synchronous call
    _logged_api_status,   \* AIProviderFactory._logged_api_status is set
    api_key_log,      \* what _log_api_key_status has logged, one entry per run of it
    selections,       \* number of AIProviderFactory.create_provider calls so far
    lastCreate,       \* the latest create_provider call: its argument and outcome
    stream,           \* the streaming response in progress (one per run)
    twin,             \* two RedisClient objects driven by the same calls
    sanitizer,        \* one value on its way through the sanitizer
    callers           \* the coroutines calling create_provider, and the one running

selectorVars == <<_logged_api_status, api_key_log, selections, lastCreate>>

\* The state outside the task store, the tasks and the AI service.
aux == <<selectorVars, stream, twin, sanitizer, callers>>

vars == <<config, provider, client, redisData, memory_storage, pc, path, req,
          ret, clock, written, failures, lastSync, aux>>

----------------------------------------------------------------------------
(* Bounds *)

MaxTasks == 2
MaxTextLen == 2
MaxFailures == 1
MaxKeyLen == 9
MaxSelections == 2
MaxFragments == 2
MaxInputLen == 4
MaxOverLimit == 1

----------------------------------------------------------------------------
(* Values *)

\* Python None and Optional values: None is the empty tuple, a present value x is <<x>>.
None == <<>>
Some(x) == <<x>>
The(o) == o[1]

TaskIds == 1..MaxTasks

\* One representative per character class of deep_clean_text's patterns:
\* "a" printable ASCII, " " space, "TAB" and "NL" whitespace, "NUL" a control
\* character outside the allow-list, "ZH" a CJK ideograph.
Chars == {"a", " ", "TAB", "NL", "NUL", "ZH"}

\* The sanitizer is also given "QUOTE" (a double quote), "BSLASH" (a
\* backslash), "FS" (U+001C, a control character that \s and str.strip
\* treat as whitespace) and "IDSP" (U+3000, the ideographic space: in the
\* CJK punctuation range, whitespace to \s and str.strip, not in [ \t]).
InputChars == Chars \cup {"QUOTE", "BSLASH", "FS", "IDSP"}
Whitespace == {" ", "TAB", "NL", "FS", "IDSP"}
Horizontal == {" ", "TAB"}
AllowList == {"a", " ", "TAB", "NL", "ZH", "QUOTE", "BSLASH", "FS", "IDSP"}

RECURSIVE TextsOfLen(_)
TextsOfLen(n) ==
    IF n = 0 THEN {<<>>}
    ELSE {Append(t, c) : t \in TextsOfLen(n - 1), c \in Chars}

AllTexts == UNION {TextsOfLen(n) : n \in 0..MaxTextLen}

RECURSIVE InputsOfLen(_)
InputsOfLen(n) ==
    IF n = 0 THEN {<<>>}
    ELSE {Append(t, c) : t \in InputsOfLen(n - 1), c \in InputChars}

\* A value that is not a str: it is not a sequence of characters.
NonText == [i \in {0} |-> "object"]

\* The values given to the sanitizer: every text of at most n characters,
\* and a value that is not a text.
SanitizerInputs(n) == UNION {InputsOfLen(k) : k \in 0..n} \cup {NonText}

LangZh == "zhongwen"
LangEn == "yingwen"
Langs == {"auto", LangZh, LangEn, "fr"}

----------------------------------------------------------------------------
(* utils/text_processor.py *)

IsAllowed(c) == c \in AllowList

\* re.sub(r'\n\s*\n\s*\n+', '\n\n', s): a match starts at a newline, lies inside
\* one run of whitespace, needs three newlines and, being greedy, ends at the
\* last newline of the run.
RECURSIVE WhitespaceRun(_)
WhitespaceRun(s) ==
    IF s = <<>> \/ Head(s) \notin Whitespace THEN 0
    ELSE 1 + WhitespaceRun(Tail(s))

RECURSIVE CollapseBlankLines(_)
CollapseBlankLines(s) ==
    IF s = <<>> THEN <<>>
    ELSE LET run == WhitespaceRun(s)
             nls == {k \in 1..run : s[k] = "NL"}
             last == CHOOSE k \in nls : \A j \in nls : j <= k
         IN IF Head(s) = "NL" /\ Cardinality(nls) >= 3
            THEN <<"NL", "NL">> \o CollapseBlankLines(SubSeq(s, last + 1, Len(s)))
            ELSE <<Head(s)>> \o CollapseBlankLines(Tail(s))

\* re.sub(r'[ \t]+', ' ', s)
RECURSIVE CollapseHorizontal(_)
CollapseHorizontal(s) ==
    IF s = <<>> THEN <<>>
    ELSE IF Head(s) \in Horizontal
         THEN IF Len(s) > 1 /\ s[2] \in Horizontal
              THEN CollapseHorizontal(Tail(s))
              ELSE <<" ">> \o CollapseHorizontal(Tail(s))
         ELSE <<Head(s)>> \o CollapseHorizontal(Tail(s))

\* str.strip()
RECURSIVE LStrip(_)
LStrip(s) == IF s # <<>> /\ Head(s) \in Whitespace THEN LStrip(Tail(s)) ELSE s

RECURSIVE RStrip(_)
RStrip(s) ==
    IF s # <<>> /\ s[Len(s)] \in Whitespace THEN RStrip(SubSeq(s, 1, Len(s) - 1)) ELSE s

Strip(s) == RStrip(LStrip(s))

deep_clean_text_strip_first(text) ==
    IF text = <<>> THEN <<>>
    ELSE CollapseHorizontal(CollapseBlankLines(SelectSeq(Strip(text), IsAllowed)))

deep_clean_text(text) ==
    IF text = <<>> THEN <<>>
    ELSE Strip(CollapseHorizontal(CollapseBlankLines(SelectSeq(text, IsAllowed))))

\* isinstance(user_input, str)
isinstance_str(user_input) == DOMAIN user_input = 1..Cardinality(DOMAIN user_input)

\* json.dumps(s, ensure_ascii=False) of a str: the text between two quotes,
\* with quote, backslash and every character below U+0020 escaped.
Escape(c) ==
    CASE c = "QUOTE" -> <<"BSLASH", "QUOTE">>
      [] c = "BSLASH" -> <<"BSLASH", "BSLASH">>
      [] c = "NL" -> <<"BSLASH", "n">>
      [] c = "TAB" -> <<"BSLASH", "t">>
      [] c = "FS" -> <<"BSLASH", "u001c">>
      [] c = "NUL" -> <<"BSLASH", "u0000">>
      [] OTHER -> <<c>>

RECURSIVE EscapeAll(_)
EscapeAll(text) ==
    IF text = <<>> THEN <<>> ELSE Escape(Head(text)) \o EscapeAll(Tail(text))

json_dumps_str_unescaped(text) == <<"QUOTE">> \o text \o <<"QUOTE">>

json_dumps_str(text) == <<"QUOTE">> \o EscapeAll(text) \o <<"QUOTE">>

\* json.loads of the text of a JSON string: None when it raises
\* json.JSONDecodeError (no closing quote, a quote or a control character
\* inside, an invalid escape, or data after the closing quote).
Unescape(c) ==
    CASE c = "QUOTE" -> Some("QUOTE")
      [] c = "BSLASH" -> Some("BSLASH")
      [] c = "n" -> Some("NL")
      [] c = "t" -> Some("TAB")
      [] c = "u001c" -> Some("FS")
      [] c = "u0000" -> Some("NUL")
      [] OTHER -> None

RECURSIVE ParseBody(_)
ParseBody(body) ==
    IF body = <<>> THEN None
    ELSE IF Head(body) = "QUOTE" THEN IF Len(body) = 1 THEN Some(<<>>) ELSE None
    ELSE IF Head(body) \in {"NL", "TAB", "FS", "NUL"} THEN None
    ELSE IF Head(body) = "BSLASH"
         THEN IF Len(body) < 2 \/ Unescape(body[2]) = None THEN None
              ELSE LET rest == ParseBody(SubSeq(body, 3, Len(body)))
                   IN IF rest = None THEN None
                      ELSE Some(<<The(Unescape(body[2]))>> \o The(rest))
    ELSE LET rest == ParseBody(Tail(body))
         IN IF rest = None THEN None ELSE Some(<<Head(body)>> \o The(rest))

json_loads_str(json_str) ==
    IF json_str = <<>> \/ Head(json_str) # "QUOTE" THEN None
    ELSE ParseBody(Tail(json_str))

\* json.dumps of a dict holding a str never raises, so the except branches
\* (which catch json.JSONDecodeError only) are not taken.
prepare_user_input_for_ai(user_input) ==
    IF ~isinstance_str(user_input) THEN <<>> ELSE deep_clean_text(user_input)

preprocess_text(text) == prepare_user_input_for_ai(text)

----------------------------------------------------------------------------
(* config/settings.py and services/ai_providers.py *)

\* int(os.getenv("TASK_EXPIRE_SECONDS", "3600")): the default, and the
\* values the environment may set.
DefaultTaskExpire == 3600

ExpireSettings == {DefaultTaskExpire, 2 * DefaultTaskExpire}

\* config.TASK_EXPIRE_SECONDS
TASK_EXPIRE_SECONDS == config.TASK_EXPIRE_SECONDS

ProviderNames == {"openai", "claude", "qianwen"}

\* An API key is unset (None) or a string: Key(n) is a key of n characters,
\* each written as its position, so Key(0) is the empty string.  Placeholder
\* stands for the template values "your_openai_api_key_here",
\* "your_claude_api_key_here" and "your_qianwen_api_key_here".
Key(n) == [i \in 1..n |-> i]
Placeholder == <<0>>
Credentials == {None} \cup {Some(Key(n)) : n \in 0..MaxKeyLen} \cup {Some(Placeholder)}

\* Python truthiness of an Optional[str].
Truthy(c) == c # None /\ The(c) # <<>>

Config(name, openai_key, claude_key, qianwen_key) ==
    [AI_PROVIDER |-> name, OPENAI_API_KEY |-> openai_key,
     CLAUDE_API_KEY |-> claude_key, QIANWEN_API_KEY |-> qianwen_key,
     TASK_EXPIRE_SECONDS |-> DefaultTaskExpire]

ApiKey(cfg, name) ==
    CASE name = "openai" -> cfg.OPENAI_API_KEY
      [] name = "claude" -> cfg.CLAUDE_API_KEY
      [] name = "qianwen" -> cfg.QIANWEN_API_KEY

\* Task runs start from the default provider with or without its key; the
\* runs of the synchronous calls start from every provider name with every
\* key set or unset; the runs of the selector start from every credential.
Configs ==
    {Config("qianwen", None, None, Some(Key(MaxKeyLen))),
     Config("qianwen", None, None, None)}

SyncConfigs ==
    {Config(n, o, c, q) : n \in ProviderNames \cup {"unknown"},
                          o \in {None, Some(Key(MaxKeyLen))},
                          c \in {None, Some(Key(MaxKeyLen))},
                          q \in {None, Some(Key(MaxKeyLen))}}

SelectConfigs ==
    {Config(n, o, c, q) : n \in ProviderNames \cup {"unknown"},
                          o \in Credentials, c \in Credentials, q \in Credentials}

\* OpenAIProvider / ClaudeProvider / QianwenProvider.__init__: the key must be truthy.
ProviderInit_unset_only(cfg, name) ==
    IF ApiKey(cfg, name) # None
    THEN [raised |-> FALSE, value |-> name]
    ELSE [raised |-> TRUE, value |-> "ValueError-API-key-not-set"]

ProviderInit(cfg, name) ==
    IF Truthy(ApiKey(cfg, name))
    THEN [raised |-> FALSE, value |-> name]
    ELSE [raised |-> TRUE, value |-> "ValueError-API-key-not-set"]

\* The name create_provider resolves: the argument, else config.AI_PROVIDER.
Resolved(cfg, provider_name) ==
    IF provider_name = None THEN cfg.AI_PROVIDER ELSE The(provider_name)

\* The value create_provider returns or the error it raises.
create_provider(cfg, provider_name) ==
    LET name == Resolved(cfg, provider_name)
    IN IF name \notin ProviderNames
       THEN [raised |-> TRUE, value |-> "ValueError-unsupported-provider"]
       ELSE ProviderInit(cfg, name)

\* key[-8:]
LogSuffixLen == 8
Suffix(key, n) == SubSeq(key, IF Len(key) > n THEN Len(key) - n + 1 ELSE 1, Len(key))

\* _log_api_key_status: per provider, the part of its key that is logged
\* (None when the key is logged as not configured).
_log_api_key_status(cfg) ==
    [n \in ProviderNames |->
        LET key == ApiKey(cfg, n)
        IN IF Truthy(key) /\ The(key) # Placeholder
           THEN Some(Suffix(The(key), LogSuffixLen))
           ELSE None]

\* not hasattr(cls, '_logged_api_status')
FirstCreation_always(logged) == TRUE

FirstCreation(logged) == ~logged

\* The logging side effect of one create_provider call on the factory's
\* flag and on the log: it is reached only by a supported name.
AfterSelect(cfg, logged, log, provider_name) ==
    IF Resolved(cfg, provider_name) \in ProviderNames /\ FirstCreation(logged)
    THEN [logged |-> TRUE, log |-> Append(log, _log_api_key_status(cfg))]
    ELSE [logged |-> logged, log |-> log]

----------------------------------------------------------------------------
(* services/ai_service.py *)

\* AIService._initialize_provider: any failure leaves self.provider = None.
_initialize_provider(cfg) ==
    LET made == create_provider(cfg, None)
    IN IF made.raised THEN None ELSE Some(made.value)

MockSummaryLimit == 50

_mock_translate(text, source_lang, target_lang) ==
    IF source_lang = LangZh /\ target_lang = LangEn
    THEN <<"[", "moni", "EN", "]", " ">> \o text
    ELSE IF source_lang = LangEn /\ target_lang = LangZh
         THEN <<"[", "moni", LangZh, "]", " ">> \o text
         ELSE <<"[", "moni", target_lang, "]", " ">> \o text

\* A mock summary that would embed the text whatever its length.
_mock_summarize_whole(text) == <<"moni", "zongjie", ":", " ">> \o text

\* f"...: {text[:50]}{'...' if len(text) > 50 else ''}"
_mock_summarize(text) ==
    <<"moni", "zongjie", ":", " ">>
        \o SubSeq(text, 1, IF Len(text) < MockSummaryLimit THEN Len(text) ELSE MockSummaryLimit)
        \o (IF Len(text) > MockSummaryLimit THEN <<".", ".", ".">> ELSE <<>>)

\* What one call of the active adapter does: it returns a text or raises.
ProviderText == <<"P">>
ProviderOutcomes == {"ok", "raise"}

\* AIService.translate_text.  The result records whether the call raised to
\* its caller, the value, whether the adapter was called and failed, and the
\* texts handed to the adapter and to the mock, in order.
translate_text_reraise(prov, text, source_lang, target_lang, outcome) ==
    LET cleaned_text == preprocess_text(text)
    IN IF prov = None
       THEN [raised |-> FALSE, value |-> _mock_translate(cleaned_text, source_lang, target_lang),
             provider_failed |-> FALSE, handed |-> <<cleaned_text>>]
       ELSE IF outcome = "ok"
            THEN [raised |-> FALSE, value |-> ProviderText, provider_failed |-> FALSE,
                  handed |-> <<cleaned_text>>]
            ELSE [raised |-> TRUE, value |-> <<"ProviderError">>, provider_failed |-> TRUE,
                  handed |-> <<cleaned_text>>]

translate_text_raw_fallback(prov, text, source_lang, target_lang, outcome) ==
    LET cleaned_text == preprocess_text(text)
    IN IF prov = None
       THEN [raised |-> FALSE, value |-> _mock_translate(cleaned_text, source_lang, target_lang),
             provider_failed |-> FALSE, handed |-> <<cleaned_text>>]
       ELSE IF outcome = "ok"
            THEN [raised |-> FALSE, value |-> ProviderText, provider_failed |-> FALSE,
                  handed |-> <<cleaned_text>>]
            ELSE [raised |-> FALSE, value |-> _mock_translate(text, source_lang, target_lang),
                  provider_failed |-> TRUE, handed |-> <<cleaned_text, text>>]

translate_text(prov, text, source_lang, target_lang, outcome) ==
    LET cleaned_text == preprocess_text(text)
    IN IF prov = None
       THEN [raised |-> FALSE, value |-> _mock_translate(cleaned_text, source_lang, target_lang),
             provider_failed |-> FALSE, handed |-> <<cleaned_text>>]
       ELSE IF outcome = "ok"
            THEN [raised |-> FALSE, value |-> ProviderText, provider_failed |-> FALSE,
                  handed |-> <<cleaned_text>>]
            ELSE [raised |-> FALSE, value |-> _mock_translate(cleaned_text, source_lang, target_lang),
                  provider_failed |-> TRUE, handed |-> <<cleaned_text, cleaned_text>>]

\* AIService.summarize_text
summarize_text_raw_fallback(prov, text, outcome) ==
    LET cleaned_text == preprocess_text(text)
    IN IF prov = None
       THEN [raised |-> FALSE, value |-> _mock_summarize(cleaned_text), provider_failed |-> FALSE,
             handed |-> <<cleaned_text>>]
       ELSE IF outcome = "ok"
            THEN [raised |-> FALSE, value |-> ProviderText, provider_failed |-> FALSE,
                  handed |-> <<cleaned_text>>]
            ELSE [raised |-> FALSE, value |-> _mock_summarize(text), provider_failed |-> TRUE,
                  handed |-> <<cleaned_text, text>>]

summarize_text(prov, text, outcome) ==
    LET cleaned_text == preprocess_text(text)
    IN IF prov = None
       THEN [raised |-> FALSE, value |-> _mock_summarize(cleaned_text), provider_failed |-> FALSE,
             handed |-> <<cleaned_text>>]
       ELSE IF outcome = "ok"
            THEN [raised |-> FALSE, value |-> ProviderText, provider_failed |-> FALSE,
                  handed |-> <<cleaned_text>>]
            ELSE [raised |-> FALSE, value |-> _mock_summarize(cleaned_text), provider_failed |-> TRUE,
                  handed |-> <<cleaned_text, cleaned_text>>]

\* AIService has no call_ai_model method: evaluating self.ai_service.call_ai_model
\* raises AttributeError before any provider is reached.
call_ai_model(prompt, task_type) ==
    [raised |-> TRUE, value |-> <<"AttributeError", "call_ai_model">>, provider_failed |-> FALSE,
     handed |-> <<>>]

----------------------------------------------------------------------------
(* Streaming: services/ai_service.py mock streams and the fragments of an *)
(* adapter's stream.                                                       *)

\* Number of leading non-whitespace characters.
RECURSIVE WordLen(_)
WordLen(s) == IF s = <<>> \/ Head(s) \in Whitespace THEN 0 ELSE 1 + WordLen(Tail(s))

\* str.split(): the maximal runs of non-whitespace characters, in order.
RECURSIVE split(_)
split(s) ==
    IF s = <<>> THEN <<>>
    ELSE IF Head(s) \in Whitespace THEN split(Tail(s))
         ELSE <<SubSeq(s, 1, WordLen(s))>> \o split(SubSeq(s, WordLen(s) + 1, Len(s)))

\* for word in words: yield word + " "
WordFragments(result) == [i \in 1..Len(split(result)) |-> Append(split(result)[i], " ")]

_mock_translate_stream(text, source_lang, target_lang) ==
    WordFragments(_mock_translate(text, source_lang, target_lang))

_mock_summarize_stream(text) == WordFragments(_mock_summarize(text))

\* The fragments an adapter's stream can yield (delta.content, never empty):
\* a piece of text led by a space, and a piece that is only whitespace.
ProviderFragments == {<<" ", "P">>, <<"NL">>}

\* "".join(fragments)
RECURSIVE Concat(_)
Concat(fragments) ==
    IF fragments = <<>> THEN <<>> ELSE Head(fragments) \o Concat(Tail(fragments))

----------------------------------------------------------------------------
(* schemas/responses.py and data/redis_keys.py *)

TaskResult(task_id, status, result, error, created_at, completed_at) ==
    [task_id |-> task_id, status |-> status, result |-> result, error |-> error,
     created_at |-> created_at, completed_at |-> completed_at]

TASK_PREFIX == "ai_task:"

task_key_shared(task_id) == <<TASK_PREFIX, 1>>

task_key(task_id) == <<TASK_PREFIX, task_id>>

STATS_PREFIX == "ai_stats:"

stats_key(date) == <<STATS_PREFIX, date>>

\* A stored value is either JSON text (a str) or a dict; both carry the fields.
model_dump_json(task) == [fmt |-> "str", rec |-> task]
dict(task) == [fmt |-> "dict", rec |-> task]
json_dumps(value) == [fmt |-> "str", rec |-> value.rec]
json_loads(json_str) == [fmt |-> "dict", rec |-> json_str.rec]

----------------------------------------------------------------------------
(* utils/redis_client.py.  The client state is the record                  *)
(* [client, redis, mem]; every operation takes the outcome of the          *)
(* connection attempt (ping) and of its own call to the external store     *)
(* (ok), both decided by the environment.                                  *)

\* The outcomes the environment can give: the connection attempt happens on
\* first use only, and only a call that reaches the external store can fail
\* (at most MaxFailures calls do in one run).
Pings(S) == IF S.client = "uninit" THEN BOOLEAN ELSE {TRUE}
Reaches(S, ping) == S.client = "redis" \/ (S.client = "uninit" /\ ping)
Calls(S, ping) ==
    IF Reaches(S, ping) /\ failures < MaxFailures THEN BOOLEAN ELSE {TRUE}
Failed(ok) == IF ok THEN 0 ELSE 1

Put(f, k, v) == [x \in DOMAIN f \cup {k} |-> IF x = k THEN v ELSE f[x]]
Remove(f, k) == [x \in DOMAIN f \ {k} |-> f[x]]

Store == [client |-> client, redis |-> redisData, mem |-> memory_storage]

_initialize(S, ping) ==
    IF S.client # "uninit" THEN S
    ELSE [S EXCEPT !.client = IF ping THEN "redis" ELSE "memory"]

\* RedisClient.set: a failing call returns False and changes nothing.
set_nx(S, key, value, ex, ping, ok) ==
    LET T == _initialize(S, ping)
    IN IF T.client = "redis"
       THEN IF ok /\ key \notin DOMAIN T.redis
            THEN [T EXCEPT !.redis = Put(@, key, [val |-> value, ex |-> ex])] ELSE T
       ELSE IF key \notin DOMAIN T.mem THEN [T EXCEPT !.mem = Put(@, key, value)] ELSE T

set(S, key, value, ex, ping, ok) ==
    LET T == _initialize(S, ping)
    IN IF T.client = "redis"
       THEN IF ok THEN [T EXCEPT !.redis = Put(@, key, [val |-> value, ex |-> ex])] ELSE T
       ELSE [T EXCEPT !.mem = Put(@, key, value)]

set_json(S, key, value, ex, ping, ok) ==
    LET T == _initialize(S, ping)
    IN IF T.client = "redis"
       THEN IF ok THEN [T EXCEPT !.redis = Put(@, key, [val |-> json_dumps(value), ex |-> ex])] ELSE T
       ELSE [T EXCEPT !.mem = Put(@, key, value)]

\* Whether a set / set_json with these outcomes stores its value.
Stores(S, ping, ok) == _initialize(S, ping).client = "memory" \/ ok

\* RedisClient.get_json: None for a missing key and for a failing call.
get_json(S, key, ping, ok) ==
    LET T == _initialize(S, ping)
    IN IF T.client = "redis"
       THEN IF ok /\ key \in DOMAIN T.redis THEN Some(json_loads(T.redis[key].val)) ELSE None
       ELSE IF key \in DOMAIN T.mem THEN Some(T.mem[key]) ELSE None

\* RedisClient.get: the stored text as it is, None for a missing key and for
\* a failing call.
get(S, key, ping, ok) ==
    LET T == _initialize(S, ping)
    IN IF T.client = "redis"
       THEN IF ok /\ key \in DOMAIN T.redis THEN Some(T.redis[key].val) ELSE None
       ELSE IF key \in DOMAIN T.mem THEN Some(T.mem[key]) ELSE None

\* A delete whose removal would take effect although the call failed.
delete_unguarded(S, key, ping, ok) ==
    LET T == _initialize(S, ping)
    IN IF T.client = "redis"
       THEN [T EXCEPT !.redis = Remove(@, key)]
       ELSE [T EXCEPT !.mem = Remove(@, key)]

\* RedisClient.delete: the client state afterwards.
delete(S, key, ping, ok) ==
    LET T == _initialize(S, ping)
    IN IF T.client = "redis"
       THEN IF ok THEN [T EXCEPT !.redis = Remove(@, key)] ELSE T
       ELSE [T EXCEPT !.mem = Remove(@, key)]

\* What RedisClient.delete returns: whether a key was removed.
Deletes(S, key, ping, ok) ==
    LET T == _initialize(S, ping)
    IN IF T.client = "redis" THEN ok /\ key \in DOMAIN T.redis
       ELSE key \in DOMAIN T.mem

\* A key pattern is a prefix followed by "*"; <<"*">> matches every key.
Matches(key, pattern) == pattern = <<"*">> \/ key[1] = pattern[1]

\* RedisClient.keys: the external store filters by the pattern, the
\* in-process map returns all of its keys; [] for a failing call.
keys(S, pattern, ping, ok) ==
    LET T == _initialize(S, ping)
    IN IF T.client = "redis"
       THEN IF ok THEN {k \in DOMAIN T.redis : Matches(k, pattern)} ELSE {}
       ELSE DOMAIN T.mem

----------------------------------------------------------------------------
(* services/task_service.py *)

create_task(S, task_id, task_result, ping, ok) ==
    set_json(S, task_key(task_id), dict(task_result), TASK_EXPIRE_SECONDS, ping, ok)

\* TaskService.get_task: TaskResult(**task_data) raises TypeError when
\* task_data is a str instead of a mapping.
get_task(S, task_id, ping, ok) ==
    LET task_data == get_json(S, task_key(task_id), ping, ok)
    IN IF task_data = None THEN [raised |-> FALSE, value |-> None]
       ELSE IF The(task_data).fmt = "dict"
            THEN [raised |-> FALSE, value |-> Some(The(task_data).rec)]
            ELSE [raised |-> TRUE, value |-> Some(<<"TypeError">>)]

SetAttrs(task, updates) ==
    [f \in DOMAIN task |-> IF f \in DOMAIN updates THEN updates[f] ELSE task[f]]

\* An update that would store a record made of the updates when it read none.
update_task_upsert(S, task_id, updates, ping, okGet, okSet) ==
    LET T == _initialize(S, ping)
        task == get_task(T, task_id, ping, okGet)
        read == IF task.value = None THEN TaskResult(task_id, "pending", None, None, 0, None)
                ELSE The(task.value)
    IN IF task.raised THEN [S |-> T, raised |-> TRUE, stored |-> FALSE, wrote |-> FALSE]
       ELSE [S |-> create_task(T, task_id, SetAttrs(read, updates), ping, okSet),
             raised |-> FALSE,
             stored |-> Stores(T, ping, okSet),
             wrote |-> TRUE]

\* TaskService.update_task: read, and write back only when a record was read.
\* The result is the client state, whether the call raised, whether a record
\* was stored, and whether set_json was called.
update_task(S, task_id, updates, ping, okGet, okSet) ==
    LET T == _initialize(S, ping)
        task == get_task(T, task_id, ping, okGet)
    IN IF task.raised THEN [S |-> T, raised |-> TRUE, stored |-> FALSE, wrote |-> FALSE]
       ELSE IF task.value = None
            THEN [S |-> T, raised |-> FALSE, stored |-> FALSE, wrote |-> FALSE]
            ELSE [S |-> create_task(T, task_id, SetAttrs(The(task.value), updates), ping, okSet),
                  raised |-> FALSE,
                  stored |-> Stores(T, ping, okSet),
                  wrote |-> TRUE]

----------------------------------------------------------------------------
(* routers/translation.py and routers/summary.py: the request payloads,   *)
(* the records the background functions build, and the time-to-live they  *)
(* pass to the store.                                                      *)

RouterExpire == 3600

Requests ==
    {[mode |-> "translate", text |-> <<"NUL", "a">>, source_lang |-> LangZh, target_lang |-> LangEn],
     [mode |-> "summary", text |-> <<" ", "ZH">>, source_lang |-> "auto", target_lang |-> "auto"]}

PendingResult(task_id, now) == TaskResult(task_id, "pending", None, None, now, None)

ProcessingResult(task_id, now) == TaskResult(task_id, "processing", None, None, now, None)

CompletedResult_status_kept(task_id, result, now) ==
    TaskResult(task_id, "processing", Some(result), None, now, Some(now + 1))

CompletedResult(task_id, result, now) ==
    TaskResult(task_id, "completed", Some(result), None, now, Some(now + 1))

FailedResult(task_id, e, now) ==
    TaskResult(task_id, "failed", None, Some(e), now, Some(now + 1))

----------------------------------------------------------------------------
(* State *)

Terminal == {"completed", "failed"}

\* The record the store holds for a task id (None when the key is missing).
Persisted(id) ==
    IF client = "redis"
    THEN IF task_key(id) \in DOMAIN redisData
         THEN Some(redisData[task_key(id)].val.rec) ELSE None
    ELSE IF task_key(id) \in DOMAIN memory_storage
         THEN Some(memory_storage[task_key(id)].rec) ELSE None

SetStore(S) ==
    /\ client' = S.client
    /\ redisData' = S.redis
    /\ memory_storage' = S.mem

Record(id, stored, status) ==
    written' = [written EXCEPT ![id] = IF stored THEN Append(@, status) ELSE @]

\* No store call has been made and no task submitted.
InitStore ==
    /\ client = "uninit"
    /\ redisData = <<>>
    /\ memory_storage = <<>>
    /\ pc = [id \in TaskIds |-> "idle"]
    /\ path = [id \in TaskIds |-> "none"]
    /\ req = [id \in TaskIds |-> None]
    /\ ret = [id \in TaskIds |-> None]
    /\ clock = [id \in TaskIds |-> 0]
    /\ written = [id \in TaskIds |-> <<>>]
    /\ failures = 0
    /\ lastSync = None

\* Two clients on which no call has been made: the external store answers
\* the connection attempt of `ext` and not that of `fallback`.
NoClient == [client |-> "uninit", redis |-> <<>>, mem |-> <<>>]

NoTwin ==
    [ext |-> NoClient, fallback |-> NoClient, reachable |-> TRUE,
     idle |-> {}, disturbed |-> FALSE, lastOp |-> None]

\* No coroutine has called create_provider and none is running.
Callers == 1..MaxSelections

NoCallers == [pc |-> [c \in Callers |-> "idle"], running |-> None]

\* No value has been given to the sanitizer.
NoInput == [input |-> None, passes |-> <<>>, payload |-> None, parsed |-> None]

\* No streaming response is open.
NoStream ==
    [pc |-> "idle", request |-> None, yielded |-> <<>>, pending |-> <<>>,
     failedAfter |-> None, events |-> <<>>, full_result |-> <<>>]

InitWith(configs) ==
    /\ config \in configs
    /\ provider = _initialize_provider(config)
    /\ InitStore
    /\ stream = NoStream
    /\ twin = NoTwin
    /\ sanitizer = NoInput
    /\ callers = NoCallers
    \* ai_service = AIService() has called create_provider() once
    /\ _logged_api_status = AfterSelect(config, FALSE, <<>>, None).logged
    /\ api_key_log = AfterSelect(config, FALSE, <<>>, None).log
    /\ selections = 1
    /\ lastCreate = Some([provider_name |-> None, result |-> create_provider(config, None)])

Init == InitWith(Configs)

InitSync == InitWith(SyncConfigs)

----------------------------------------------------------------------------
(* Submission *)

\* str(uuid.uuid4()): an id no task has used; ids are handed out in order.
ReusedId(id) == TRUE

FreshId(id) == pc[id] = "idle" /\ \A j \in TaskIds : j < id => pc[j] # "idle"

\* translate_async / summarize_async: store the pending record, schedule the
\* background function, return the id.
SubmitAsync(id, r) ==
    /\ FreshId(id)
    /\ \E ping \in Pings(Store) : \E ok \in Calls(Store, ping) :
          /\ SetStore(set(Store, task_key(id), model_dump_json(PendingResult(id, clock[id] + 1)),
                          RouterExpire, ping, ok))
          /\ Record(id, Stores(Store, ping, ok), "pending")
          /\ failures' = failures + Failed(ok)
    /\ clock' = [clock EXCEPT ![id] = @ + 1]
    /\ pc' = [pc EXCEPT ![id] = "scheduled"]
    /\ path' = [path EXCEPT ![id] = "router"]
    /\ req' = [req EXCEPT ![id] = Some(r)]
    /\ ret' = [ret EXCEPT ![id] = None]
    /\ UNCHANGED <<aux, config, provider, lastSync>>

\* TaskService.create_task with a pending record; the task is then run by
\* TaskService.process_translation_task / process_summary_task.
CreateTask(id) ==
    /\ FreshId(id)
    /\ \E ping \in Pings(Store) : \E ok \in Calls(Store, ping) :
          /\ SetStore(create_task(Store, id, PendingResult(id, clock[id] + 1), ping, ok))
          /\ Record(id, Stores(Store, ping, ok), "pending")
          /\ failures' = failures + Failed(ok)
    /\ clock' = [clock EXCEPT ![id] = @ + 1]
    /\ pc' = [pc EXCEPT ![id] = "scheduled"]
    /\ path' = [path EXCEPT ![id] = "service"]
    /\ UNCHANGED <<aux, config, provider, req, ret, lastSync>>

----------------------------------------------------------------------------
(* _process_translation_task / _process_summary_task.  The coroutine      *)
(* suspends only inside ai_service.translate_text / summarize_text (the   *)
(* provider request or the mock's sleep): the processing write runs up to *)
(* that point, the terminal write runs when the call comes back.          *)

RouterWriteProcessing(id) ==
    /\ pc[id] = "scheduled" /\ path[id] = "router"
    /\ \E ping \in Pings(Store) : \E ok \in Calls(Store, ping) :
          /\ SetStore(set(Store, task_key(id), model_dump_json(ProcessingResult(id, clock[id] + 1)),
                          RouterExpire, ping, ok))
          /\ Record(id, Stores(Store, ping, ok), "processing")
          /\ failures' = failures + Failed(ok)
    /\ clock' = [clock EXCEPT ![id] = @ + 1]
    /\ pc' = [pc EXCEPT ![id] = "calling"]
    /\ UNCHANGED <<aux, config, provider, path, req, ret, lastSync>>

\* translate_text / summarize_text comes back; then the completed write, or
\* the except branch's failed write.
RouterFinish(id) ==
    /\ pc[id] = "calling" /\ path[id] = "router"
    /\ \E outcome \in ProviderOutcomes, ping \in Pings(Store) : \E ok \in Calls(Store, ping) :
          LET r == The(req[id])
              result == IF r.mode = "translate"
                        THEN translate_text(provider, r.text, r.source_lang, r.target_lang, outcome)
                        ELSE summarize_text(provider, r.text, outcome)
              task_result == IF result.raised
                             THEN FailedResult(id, result.value, clock[id] + 1)
                             ELSE CompletedResult(id, result.value, clock[id] + 1)
          IN /\ ret' = [ret EXCEPT ![id] = Some(result)]
             /\ SetStore(set(Store, task_key(id), model_dump_json(task_result),
                             RouterExpire, ping, ok))
             /\ Record(id, Stores(Store, ping, ok), task_result.status)
             /\ failures' = failures + Failed(ok)
    /\ clock' = [clock EXCEPT ![id] = @ + 2]
    /\ pc' = [pc EXCEPT ![id] = "done"]
    /\ UNCHANGED <<aux, config, provider, path, req, lastSync>>

----------------------------------------------------------------------------
(* TaskService.process_translation_task / process_summary_task.  No await *)
(* of the coroutine suspends (call_ai_model raises before it is awaited),  *)
(* so one step runs the whole function.  The request is its argument.      *)

Prompt(r) ==
    IF r.mode = "translate"
    THEN (IF r.target_lang = "en" THEN <<"zh-to-en:">> ELSE <<"en-to-zh:">>) \o r.text
    ELSE <<"summarize:">> \o r.text

\* except Exception as e: self.update_task(task_id, status="failed", error=str(e))
ExceptUpdate(S, task_id, e, ping, okGet, okSet) ==
    update_task(S, task_id, [status |-> "failed", error |-> Some(e)], ping, okGet, okSet)

ProcessTask(id, r) ==
    /\ pc[id] = "scheduled" /\ path[id] = "service"
    /\ \E ping \in Pings(Store) :
       \E okGet1 \in Calls(Store, ping), okSet1 \in Calls(Store, ping),
          okGet2 \in Calls(Store, ping), okSet2 \in Calls(Store, ping) :
          LET first == update_task(Store, id, [status |-> "processing"], ping, okGet1, okSet1)
              result == call_ai_model(Prompt(r), r.mode)
              done == update_task(first.S, id,
                                  [status |-> "completed", result |-> Some(result.value),
                                   completed_at |-> Some(clock[id] + 1)],
                                  ping, okGet2, okSet2)
              caught == IF first.raised THEN <<"TypeError">>
                        ELSE IF result.raised THEN result.value ELSE <<"TypeError">>
              handled == ExceptUpdate(first.S, id, caught, ping, okGet2, okSet2)
              normal == ~first.raised /\ ~result.raised /\ ~done.raised
              last == IF normal THEN done ELSE handled
              steps == (IF first.stored THEN <<"processing">> ELSE <<>>)
                       \o (IF last.stored THEN <<IF normal THEN "completed" ELSE "failed">> ELSE <<>>)
          IN /\ okSet1 \/ first.wrote
             /\ okSet2 \/ last.wrote
             /\ failures + Failed(okGet1) + Failed(okSet1) + Failed(okGet2) + Failed(okSet2)
                   <= MaxFailures
             /\ failures' = failures + Failed(okGet1) + Failed(okSet1) + Failed(okGet2)
                                + Failed(okSet2)
             /\ ret' = [ret EXCEPT ![id] = Some(result)]
             /\ SetStore(last.S)
             /\ written' = [written EXCEPT ![id] = @ \o steps]
             /\ pc' = [pc EXCEPT ![id] = IF last.raised THEN "escaped" ELSE "done"]
    /\ clock' = [clock EXCEPT ![id] = @ + 1]
    /\ UNCHANGED <<aux, config, provider, path, req, lastSync>>

----------------------------------------------------------------------------
(* routers/tasks.py: GET /api/task/{task_id} *)

\* get_task_result: 404 when get_task returns None, the record otherwise; an
\* exception of get_task is not caught.
get_task_result(S, task_id, ping, ok) ==
    LET task == get_task(S, task_id, ping, ok)
    IN IF task.raised THEN [task_id |-> task_id, kind |-> "error", data |-> None]
       ELSE IF task.value = None THEN [task_id |-> task_id, kind |-> "not_found", data |-> None]
            ELSE [task_id |-> task_id, kind |-> "found", data |-> task.value]

\* The handler reads only; a failing read returns 404 and is counted.
Poll(id) ==
    /\ \E ping \in Pings(Store) : \E ok \in Calls(Store, ping) :
          /\ SetStore(_initialize(Store, ping))
          /\ failures' = failures + Failed(ok)
    /\ UNCHANGED <<aux, config, provider, pc, path, req, ret, clock, written, lastSync>>

----------------------------------------------------------------------------
(* The external store drops a key whose time-to-live has run out. *)

Expire(id) ==
    /\ client = "redis"
    /\ task_key(id) \in DOMAIN redisData
    /\ redisData' = Remove(redisData, task_key(id))
    /\ UNCHANGED <<aux, config, provider, client, memory_storage, pc, path, req, ret, clock,
                   written, failures, lastSync>>

----------------------------------------------------------------------------
(* translate_sync / summarize_sync.  A run makes one synchronous call. *)

TranslateSync(text, source_lang, target_lang) ==
    /\ lastSync = None
    /\ \E outcome \in ProviderOutcomes :
          lastSync' = Some([mode |-> "translate", text |-> text, source_lang |-> source_lang,
                            target_lang |-> target_lang,
                            result |-> translate_text(provider, text, source_lang, target_lang, outcome)])
    /\ UNCHANGED <<aux, config, provider, client, redisData, memory_storage, pc, path, req, ret,
                   clock, written, failures>>

SummarizeSync(text) ==
    /\ lastSync = None
    /\ \E outcome \in ProviderOutcomes :
          lastSync' = Some([mode |-> "summary", text |-> text, source_lang |-> "auto",
                            target_lang |-> "auto",
                            result |-> summarize_text(provider, text, outcome)])
    /\ UNCHANGED <<aux, config, provider, client, redisData, memory_storage, pc, path, req, ret,
                   clock, written, failures>>

----------------------------------------------------------------------------
(* Specifications *)

Next ==
    \/ \E id \in TaskIds, r \in Requests : SubmitAsync(id, r)
    \/ \E id \in TaskIds : CreateTask(id)
    \/ \E id \in TaskIds : RouterWriteProcessing(id)
    \/ \E id \in TaskIds : RouterFinish(id)
    \/ \E id \in TaskIds, r \in Requests : ProcessTask(id, r)
    \/ \E id \in TaskIds : Poll(id)
    \/ \E id \in TaskIds : Expire(id)

Spec == Init /\ [][Next]_vars

NextSync ==
    \/ \E text \in AllTexts, source_lang \in Langs, target_lang \in Langs :
          TranslateSync(text, source_lang, target_lang)
    \/ \E text \in AllTexts : SummarizeSync(text)

SpecSync == InitSync /\ [][NextSync]_vars

----------------------------------------------------------------------------
(* AIService._mock_translate / _mock_summarize called directly on a       *)
(* sanitized text: the short texts, and texts about as long as the mock   *)
(* summary's limit.                                                        *)

mockFrame == <<aux, config, provider, client, redisData, memory_storage, pc, path, req, ret,
               clock, written, failures>>

LongTexts ==
    {[i \in 1..n |-> "a"] : n \in (MockSummaryLimit - 1)..(MockSummaryLimit + MaxOverLimit)}

MockTexts == {preprocess_text(t) : t \in AllTexts} \cup LongTexts

MockTranslate(text, source_lang, target_lang) ==
    /\ lastSync' = Some([mode |-> "translate", text |-> text, source_lang |-> source_lang,
                         target_lang |-> target_lang,
                         result |-> _mock_translate(text, source_lang, target_lang),
                         again |-> _mock_translate(text, source_lang, target_lang)])
    /\ UNCHANGED mockFrame

MockSummarize(text) ==
    /\ lastSync' = Some([mode |-> "summary", text |-> text, source_lang |-> "auto",
                         target_lang |-> "auto",
                         result |-> _mock_summarize(text),
                         again |-> _mock_summarize(text)])
    /\ UNCHANGED mockFrame

NextMock ==
    \/ \E text \in MockTexts, source_lang \in Langs, target_lang \in Langs :
          MockTranslate(text, source_lang, target_lang)
    \/ \E text \in MockTexts : MockSummarize(text)

SpecMock == Init /\ [][NextMock]_vars

----------------------------------------------------------------------------
(* Two executions of the same task id.  The writers are numbered like the *)
(* tasks; both write the record of task 1, each by the router's function  *)
(* or by TaskService's.  pc, path, req, ret, clock and written are kept   *)
(* per writer here, and written[w] lists the statuses writer w stored.    *)
(* The store answers every call.                                           *)

raceFrame == <<aux, config, provider, failures, lastSync>>

Paths == {"router", "service"}

\* The task is submitted once and its execution scheduled twice.
RaceSubmit(r, p, viaRouter) ==
    /\ \A w \in TaskIds : pc[w] = "idle"
    /\ \E ping \in Pings(Store) :
          SetStore(IF viaRouter
                   THEN set(Store, task_key(1), model_dump_json(PendingResult(1, 1)),
                            RouterExpire, ping, TRUE)
                   ELSE create_task(Store, 1, PendingResult(1, 1), ping, TRUE))
    /\ pc' = [w \in TaskIds |-> "scheduled"]
    /\ path' = p
    /\ req' = [w \in TaskIds |-> Some(r)]
    /\ clock' = [w \in TaskIds |-> 1]
    /\ UNCHANGED <<raceFrame, ret, written>>

\* _process_translation_task / _process_summary_task up to the AI call.
RaceRouterProcessing(w) ==
    /\ pc[w] = "scheduled" /\ path[w] = "router"
    /\ SetStore(set(Store, task_key(1), model_dump_json(ProcessingResult(1, clock[w] + 1)),
                    RouterExpire, TRUE, TRUE))
    /\ Record(w, TRUE, "processing")
    /\ clock' = [clock EXCEPT ![w] = @ + 1]
    /\ pc' = [pc EXCEPT ![w] = "calling"]
    /\ UNCHANGED <<raceFrame, path, req, ret>>

\* The AI call comes back and the terminal record is written.
RaceRouterFinish(w) ==
    /\ pc[w] = "calling" /\ path[w] = "router"
    /\ \E outcome \in ProviderOutcomes :
          LET r == The(req[w])
              result == IF r.mode = "translate"
                        THEN translate_text(provider, r.text, r.source_lang, r.target_lang, outcome)
                        ELSE summarize_text(provider, r.text, outcome)
              task_result == IF result.raised
                             THEN FailedResult(1, result.value, clock[w] + 1)
                             ELSE CompletedResult(1, result.value, clock[w] + 1)
          IN /\ ret' = [ret EXCEPT ![w] = Some(result)]
             /\ SetStore(set(Store, task_key(1), model_dump_json(task_result),
                             RouterExpire, TRUE, TRUE))
             /\ Record(w, TRUE, task_result.status)
    /\ clock' = [clock EXCEPT ![w] = @ + 2]
    /\ pc' = [pc EXCEPT ![w] = "done"]
    /\ UNCHANGED <<raceFrame, path, req>>

\* TaskService.process_translation_task / process_summary_task, in one step:
\* update_task(processing), the AI call, update_task(completed) or the except
\* branch's update_task(failed).
RaceProcessTask(w) ==
    /\ pc[w] = "scheduled" /\ path[w] = "service"
    /\ LET r == The(req[w])
           first == update_task(Store, 1, [status |-> "processing"], TRUE, TRUE, TRUE)
           result == call_ai_model(Prompt(r), r.mode)
           done == update_task(first.S, 1,
                               [status |-> "completed", result |-> Some(result.value),
                                completed_at |-> Some(clock[w] + 1)],
                               TRUE, TRUE, TRUE)
           caught == IF first.raised THEN <<"TypeError">>
                     ELSE IF result.raised THEN result.value ELSE <<"TypeError">>
           handled == ExceptUpdate(first.S, 1, caught, TRUE, TRUE, TRUE)
           normal == ~first.raised /\ ~result.raised /\ ~done.raised
           last == IF normal THEN done ELSE handled
           steps == (IF first.stored THEN <<"processing">> ELSE <<>>)
                    \o (IF last.stored THEN <<IF normal THEN "completed" ELSE "failed">> ELSE <<>>)
       IN /\ ret' = [ret EXCEPT ![w] = Some(result)]
          /\ SetStore(last.S)
          /\ written' = [written EXCEPT ![w] = @ \o steps]
          /\ pc' = [pc EXCEPT ![w] = IF last.raised THEN "escaped" ELSE "done"]
    /\ clock' = [clock EXCEPT ![w] = @ + 1]
    /\ UNCHANGED <<raceFrame, path, req>>

NextRace ==
    \/ \E r \in Requests, p \in [TaskIds -> Paths], viaRouter \in BOOLEAN :
          RaceSubmit(r, p, viaRouter)
    \/ \E w \in TaskIds : RaceRouterProcessing(w)
    \/ \E w \in TaskIds : RaceRouterFinish(w)
    \/ \E w \in TaskIds : RaceProcessTask(w)

SpecRace == InitSync /\ [][NextRace]_vars

----------------------------------------------------------------------------
(* Provider selection: services/ai_providers.py AIProviderFactory *)

coreVars == <<config, provider, client, redisData, memory_storage, pc, path, req,
              ret, clock, written, failures, lastSync>>

\* The process before ai_service = AIService() is constructed.
InitSelect ==
    /\ config \in SelectConfigs
    /\ provider = None
    /\ InitStore
    /\ stream = NoStream
    /\ twin = NoTwin
    /\ sanitizer = NoInput
    /\ callers = NoCallers
    /\ _logged_api_status = FALSE
    /\ api_key_log = <<>>
    /\ selections = 0
    /\ lastCreate = None

\* One call of AIProviderFactory.create_provider(provider_name).
Selects(provider_name) ==
    LET after == AfterSelect(config, _logged_api_status, api_key_log, provider_name)
    IN /\ selections < MaxSelections
       /\ _logged_api_status' = after.logged
       /\ api_key_log' = after.log
       /\ selections' = selections + 1
       /\ lastCreate' = Some([provider_name |-> provider_name,
                              result |-> create_provider(config, provider_name)])

CreateProvider(provider_name) ==
    /\ Selects(provider_name)
    /\ UNCHANGED <<coreVars, stream, twin, sanitizer, callers>>

\* AIService.__init__: the first selection of the process, by the configured name.
InitializeProvider ==
    /\ selections = 0
    /\ Selects(None)
    /\ provider' = _initialize_provider(config)
    /\ UNCHANGED <<config, client, redisData, memory_storage, pc, path, req,
                   ret, clock, written, failures, lastSync, stream, twin, sanitizer, callers>>

SelectNames == {None} \cup {Some(n) : n \in ProviderNames \cup {"unknown"}}

NextSelect ==
    \/ InitializeProvider
    \/ \E provider_name \in SelectNames : CreateProvider(provider_name)

SpecSelect == InitSelect /\ [][NextSelect]_vars

----------------------------------------------------------------------------
(* Concurrent first calls of AIProviderFactory.create_provider(), one     *)
(* statement per step.  The event loop runs one coroutine at a time and   *)
(* switches only where the running one awaits: callers.running is the     *)
(* coroutine that holds the loop, callers.pc[c] the statement caller c is *)
(* at.                                                                     *)

callersFrame == <<coreVars, stream, twin, sanitizer>>

\* Whether the statement at pc awaits.  create_provider and
\* _log_api_key_status are plain methods: no statement of them does.
Suspends_at_log(at) == at = "log"

Suspends(at) == FALSE

\* Caller c moves to the statement at; the loop stays with c unless the
\* statement c has just run awaits, and is released when c returns or raises.
Advance(c, from, at) ==
    [pc |-> [callers.pc EXCEPT ![c] = at],
     running |-> IF at = "done" \/ Suspends(from) THEN None ELSE Some(c)]

MayRun(c) == callers.running \in {None, Some(c)}

\* if provider_name is None: provider_name = config.AI_PROVIDER
\* if provider_name not in cls._providers: raise ValueError(...)
CallerEnters(c) ==
    /\ MayRun(c) /\ callers.pc[c] = "idle"
    /\ callers' = Advance(c, "idle", IF Resolved(config, None) \in ProviderNames
                                     THEN "guard" ELSE "raise")
    /\ UNCHANGED <<callersFrame, selectorVars>>

\* if not hasattr(cls, '_logged_api_status'):
CallerChecksGuard(c) ==
    /\ MayRun(c) /\ callers.pc[c] = "guard"
    /\ callers' = Advance(c, "guard", IF FirstCreation(_logged_api_status)
                                      THEN "log" ELSE "construct")
    /\ UNCHANGED <<callersFrame, selectorVars>>

\* cls._log_api_key_status()
CallerLogs(c) ==
    /\ MayRun(c) /\ callers.pc[c] = "log"
    /\ api_key_log' = Append(api_key_log, _log_api_key_status(config))
    /\ callers' = Advance(c, "log", "set")
    /\ UNCHANGED <<callersFrame, _logged_api_status, selections, lastCreate>>

\* cls._logged_api_status = True
CallerSetsFlag(c) ==
    /\ MayRun(c) /\ callers.pc[c] = "set"
    /\ _logged_api_status' = TRUE
    /\ callers' = Advance(c, "set", "construct")
    /\ UNCHANGED <<callersFrame, api_key_log, selections, lastCreate>>

\* return cls._providers[provider_name](), or the ValueError of an
\* unsupported name.
CallerReturns(c) ==
    /\ MayRun(c) /\ callers.pc[c] \in {"construct", "raise"}
    /\ selections' = selections + 1
    /\ lastCreate' = Some([provider_name |-> None, result |-> create_provider(config, None)])
    /\ callers' = Advance(c, callers.pc[c], "done")
    /\ UNCHANGED <<callersFrame, _logged_api_status, api_key_log>>

NextCallers ==
    \/ \E c \in Callers : CallerEnters(c)
    \/ \E c \in Callers : CallerChecksGuard(c)
    \/ \E c \in Callers : CallerLogs(c)
    \/ \E c \in Callers : CallerSetsFlag(c)
    \/ \E c \in Callers : CallerReturns(c)

SpecCallers == InitSelect /\ [][NextCallers]_vars

----------------------------------------------------------------------------
(* Streaming responses: routers/translation.py translate_stream,          *)
(* routers/summary.py summarize_stream, and AIService.translate_stream /  *)
(* summarize_stream behind them.  The generators advance one fragment per *)
(* step.                                                                   *)

\* chunk.strip().replace('\n', ' ').replace('\r', ' ').replace('\t', ' ')
clean_chunk(chunk) ==
    [i \in 1..Len(Strip(chunk)) |->
        IF Strip(chunk)[i] \in {"NL", "TAB"} THEN " " ELSE Strip(chunk)[i]]

StartEvent(mode) == IF mode = "translate" THEN [type |-> "start"] ELSE [type |-> "started"]
ChunkEvent(chunk) == [type |-> "chunk", content |-> clean_chunk(chunk)]
DoneEvents(mode, full_result) ==
    IF mode = "translate"
    THEN <<[type |-> "done", full_result |-> full_result]>>
    ELSE <<[type |-> "completed"], [type |-> "[DONE]"]>>
ErrorEvent(e) == [type |-> "error", message |-> e]

\* The body of the router's async for: a fragment that is not blank is
\* relayed as a chunk event and its stripped text appended to full_result.
Relay_unfiltered(st, chunk) ==
    [st EXCEPT !.yielded = Append(@, chunk),
               !.events = Append(@, ChunkEvent(chunk)),
               !.full_result = @ \o Strip(chunk)]

Relay(st, chunk) ==
    IF Strip(chunk) # <<>>
    THEN [st EXCEPT !.yielded = Append(@, chunk),
                    !.events = Append(@, ChunkEvent(chunk)),
                    !.full_result = @ \o Strip(chunk)]
    ELSE [st EXCEPT !.yielded = Append(@, chunk)]

\* The mock stream AIService falls back to for the request.
MockStream(r) ==
    IF r.mode = "translate"
    THEN _mock_translate_stream(preprocess_text(r.text), r.source_lang, r.target_lang)
    ELSE _mock_summarize_stream(preprocess_text(r.text))

streamFrame == <<config, provider, client, redisData, memory_storage, pc, path, req,
                 ret, clock, written, failures, lastSync, selectorVars, twin, sanitizer,
                 callers>>

\* A service that attempts the selection again when a request finds no
\* adapter, for comparison with StreamOpen, which only reads self.provider.
StreamOpen_reselecting(r) ==
    /\ stream.pc = "idle" /\ lastSync = None
    /\ provider' = IF provider = None THEN _initialize_provider(config) ELSE provider
    /\ selections' = IF provider = None THEN selections + 1 ELSE selections
    /\ stream' = [NoStream EXCEPT !.pc = IF provider = None THEN "mock" ELSE "provider",
                                  !.request = Some(r),
                                  !.pending = IF provider = None THEN MockStream(r) ELSE <<>>,
                                  !.events = <<StartEvent(r.mode)>>]
    /\ UNCHANGED <<config, client, redisData, memory_storage, pc, path, req, ret, clock,
                   written, failures, lastSync, _logged_api_status, api_key_log, lastCreate,
                   twin, sanitizer, callers>>

\* The request arrives: the start event is sent and AIService opens the
\* adapter's stream, or the mock stream when there is no adapter.
StreamOpen_recording(r) ==
    /\ stream.pc = "idle" /\ lastSync = None
    /\ stream' = [NoStream EXCEPT !.pc = IF provider = None THEN "mock" ELSE "provider",
                                  !.request = Some(r),
                                  !.pending = IF provider = None THEN MockStream(r) ELSE <<>>,
                                  !.events = <<StartEvent(r.mode)>>]
    /\ SetStore(set(Store, task_key(1), model_dump_json(PendingResult(1, 1)), RouterExpire,
                    FALSE, TRUE))
    /\ UNCHANGED <<config, provider, pc, path, req, ret, clock, written, failures, lastSync,
                   selectorVars, twin, sanitizer, callers>>

StreamOpen(r) ==
    /\ stream.pc = "idle" /\ lastSync = None
    /\ stream' = [NoStream EXCEPT !.pc = IF provider = None THEN "mock" ELSE "provider",
                                  !.request = Some(r),
                                  !.pending = IF provider = None THEN MockStream(r) ELSE <<>>,
                                  !.events = <<StartEvent(r.mode)>>]
    /\ UNCHANGED streamFrame

\* The adapter yields one more fragment.
ProviderYields(chunk) ==
    /\ stream.pc = "provider"
    /\ Len(stream.yielded) < MaxFragments
    /\ stream' = Relay(stream, chunk)
    /\ UNCHANGED streamFrame

\* The adapter's stream ends: the router sends its completion events.
ProviderCompletes ==
    /\ stream.pc = "provider"
    /\ stream' = [stream EXCEPT !.pc = "closed",
                                !.events = @ \o DoneEvents(The(stream.request).mode, stream.full_result)]
    /\ UNCHANGED streamFrame

\* The adapter raises (on opening or mid-stream): AIService catches the
\* exception and continues with the mock stream of the same request.
ProviderRaises ==
    /\ stream.pc = "provider"
    /\ stream' = [stream EXCEPT !.pc = "mock",
                                !.failedAfter = Some([events |-> Len(stream.events),
                                                      fragments |-> Len(stream.yielded)]),
                                !.pending = MockStream(The(stream.request))]
    /\ UNCHANGED streamFrame

\* The mock stream yields its next word.
MockYields ==
    /\ stream.pc = "mock" /\ stream.pending # <<>>
    /\ stream' = [Relay(stream, Head(stream.pending)) EXCEPT !.pending = Tail(stream.pending)]
    /\ UNCHANGED streamFrame

\* The mock stream ends: the router sends its completion events.
MockCompletes ==
    /\ stream.pc = "mock" /\ stream.pending = <<>>
    /\ stream' = [stream EXCEPT !.pc = "closed",
                                !.events = @ \o DoneEvents(The(stream.request).mode, stream.full_result)]
    /\ UNCHANGED streamFrame

\* The language pairs of the streamed requests: one per branch of the mock.
StreamLangs == {<<LangZh, LangEn>>, <<LangEn, LangZh>>, <<"auto", "fr">>}

StreamRequests ==
    {[mode |-> "translate", text |-> t, source_lang |-> l[1], target_lang |-> l[2]] :
        t \in AllTexts, l \in StreamLangs}
    \cup {[mode |-> "summary", text |-> t, source_lang |-> "auto", target_lang |-> "auto"] :
             t \in AllTexts}

\* A run serves one synchronous request or one streaming request; a task
\* may have been submitted before it.
NextStream ==
    \/ stream.pc = "idle" /\ lastSync = None /\ \E r \in Requests : SubmitAsync(1, r)
    \/ stream.pc = "idle" /\ lastSync = None /\ \E r \in StreamRequests : StreamOpen(r)
    \/ \E chunk \in ProviderFragments : ProviderYields(chunk)
    \/ ProviderCompletes
    \/ ProviderRaises
    \/ MockYields
    \/ MockCompletes
    \/ stream.pc = "idle" /\ lastSync = None /\ \E text \in AllTexts, l \in StreamLangs :
          TranslateSync(text, l[1], l[2])
    \/ stream.pc = "idle" /\ lastSync = None /\ \E text \in AllTexts : SummarizeSync(text)

SpecStream == Init /\ [][NextStream]_vars

----------------------------------------------------------------------------
(* utils/redis_client.py: the same calls made on a client whose external  *)
(* store answered the connection attempt (ext) and on one whose attempt   *)
(* failed (fallback).  twin.lastOp keeps what the latest call returned on *)
(* each; twin.reachable is whether the external store answers now;        *)
(* twin.idle is the set of keys no call has written for a whole           *)
(* time-to-live; twin.disturbed is set once an outage or an expiry has    *)
(* happened.                                                              *)

storeFrame == <<coreVars, selectorVars, stream, sanitizer, callers>>

StoreKeys == {task_key(1), stats_key(1)}

StoreRecords == {PendingResult(1, 1), ProcessingResult(1, 1)}

KeyPatterns == {<<"*">>, <<TASK_PREFIX, "*">>}

Returned(op, key, value, e, f) ==
    Some([op |-> op, key |-> key, value |-> value, ext |-> e, fallback |-> f,
          outage |-> ~twin.reachable])

\* await redis_client.set(key, task.model_dump_json(), ex=...)
TwinSet(key, task) ==
    LET value == model_dump_json(task)
        up == twin.reachable
    IN /\ twin' = [twin EXCEPT
              !.ext = set(@, key, value, RouterExpire, up, up),
              !.fallback = set(@, key, value, RouterExpire, FALSE, TRUE),
              !.idle = @ \ {key},
              !.lastOp = Returned("set", key, Some(value),
                                  Stores(twin.ext, up, up),
                                  Stores(twin.fallback, FALSE, TRUE))]
       /\ UNCHANGED storeFrame

\* redis_client.set_json(key, task.dict(), ex=...)
TwinSetJson(key, task) ==
    LET value == dict(task)
        up == twin.reachable
    IN /\ twin' = [twin EXCEPT
              !.ext = set_json(@, key, value, TASK_EXPIRE_SECONDS, up, up),
              !.fallback = set_json(@, key, value, TASK_EXPIRE_SECONDS, FALSE, TRUE),
              !.idle = @ \ {key},
              !.lastOp = Returned("set_json", key, Some(value),
                                  Stores(twin.ext, up, up),
                                  Stores(twin.fallback, FALSE, TRUE))]
       /\ UNCHANGED storeFrame

TwinGet(key) ==
    LET up == twin.reachable
    IN /\ twin' = [twin EXCEPT
              !.ext = _initialize(@, up),
              !.fallback = _initialize(@, FALSE),
              !.lastOp = Returned("get", key, None,
                                  get(twin.ext, key, up, up),
                                  get(twin.fallback, key, FALSE, TRUE))]
       /\ UNCHANGED storeFrame

TwinGetJson(key) ==
    LET up == twin.reachable
    IN /\ twin' = [twin EXCEPT
              !.ext = _initialize(@, up),
              !.fallback = _initialize(@, FALSE),
              !.lastOp = Returned("get_json", key, None,
                                  get_json(twin.ext, key, up, up),
                                  get_json(twin.fallback, key, FALSE, TRUE))]
       /\ UNCHANGED storeFrame

TwinDelete(key) ==
    LET up == twin.reachable
    IN /\ twin' = [twin EXCEPT
              !.ext = delete(@, key, up, up),
              !.fallback = delete(@, key, FALSE, TRUE),
              !.lastOp = Returned("delete", key, None,
                                  Deletes(twin.ext, key, up, up),
                                  Deletes(twin.fallback, key, FALSE, TRUE))]
       /\ UNCHANGED storeFrame

TwinKeys(pattern) ==
    LET up == twin.reachable
    IN /\ twin' = [twin EXCEPT
              !.ext = _initialize(@, up),
              !.fallback = _initialize(@, FALSE),
              !.lastOp = Returned("keys", pattern, None,
                                  keys(twin.ext, pattern, up, up),
                                  keys(twin.fallback, pattern, FALSE, TRUE))]
       /\ UNCHANGED storeFrame

\* A whole time-to-live passes without a call: the external store drops the
\* keys written with ex; the in-process map of either client keeps its keys.
Unexpired(f) == [k \in {x \in DOMAIN f : f[x].ex \notin Nat} |-> f[k]]

TwinElapse ==
    LET held == DOMAIN twin.ext.redis \cup DOMAIN twin.ext.mem \cup DOMAIN twin.fallback.mem
    IN /\ held # {}
       /\ twin' = [twin EXCEPT
              !.ext.redis = Unexpired(@),
              !.idle = StoreKeys,
              !.disturbed = TRUE,
              !.lastOp = None]
       /\ UNCHANGED storeFrame

\* The external store stops answering.
TwinOutage ==
    /\ twin.reachable
    /\ twin' = [twin EXCEPT !.reachable = FALSE, !.disturbed = TRUE, !.lastOp = None]
    /\ UNCHANGED storeFrame

NextStore ==
    \/ \E key \in StoreKeys, task \in StoreRecords : TwinSet(key, task)
    \/ \E key \in StoreKeys, task \in StoreRecords : TwinSetJson(key, task)
    \/ \E key \in StoreKeys : TwinGet(key)
    \/ \E key \in StoreKeys : TwinGetJson(key)
    \/ \E key \in StoreKeys : TwinDelete(key)
    \/ \E pattern \in KeyPatterns : TwinKeys(pattern)
    \/ TwinElapse
    \/ TwinOutage

\* The environment may set TASK_EXPIRE_SECONDS.
StoreConfigs == {[c EXCEPT !.TASK_EXPIRE_SECONDS = t] : c \in Configs, t \in ExpireSettings}

InitTwin == InitWith(StoreConfigs)

SpecStore == InitTwin /\ [][NextStore]_vars

----------------------------------------------------------------------------
(* utils/text_processor.py: one value is sanitized, sanitized again, and  *)
(* the latest output is embedded as a JSON string value and parsed back.  *)
(* sanitizer.passes holds the outputs of the successive passes.           *)

sanitizerFrame == <<coreVars, selectorVars, stream, twin, callers>>

InitSanitize ==
    /\ config \in Configs
    /\ provider = _initialize_provider(config)
    /\ InitStore
    /\ stream = NoStream
    /\ twin = NoTwin
    /\ _logged_api_status = AfterSelect(config, FALSE, <<>>, None).logged
    /\ api_key_log = AfterSelect(config, FALSE, <<>>, None).log
    /\ selections = 1
    /\ lastCreate = Some([provider_name |-> None, result |-> create_provider(config, None)])
    /\ callers = NoCallers
    /\ \E user_input \in SanitizerInputs(MaxInputLen) :
          sanitizer = [NoInput EXCEPT !.input = Some(user_input)]

\* preprocess_text(text) on the caller's value, then on its own output.
Sanitize ==
    /\ Len(sanitizer.passes) < 2
    /\ sanitizer.payload = None
    /\ LET text == IF sanitizer.passes = <<>> THEN The(sanitizer.input)
                   ELSE sanitizer.passes[Len(sanitizer.passes)]
       IN sanitizer' = [sanitizer EXCEPT !.passes = Append(@, preprocess_text(text))]
    /\ UNCHANGED sanitizerFrame

\* json.dumps of the sanitized text.
Serialize ==
    /\ sanitizer.passes # <<>>
    /\ sanitizer.payload = None
    /\ sanitizer' = [sanitizer EXCEPT
           !.payload = Some(json_dumps_str(sanitizer.passes[Len(sanitizer.passes)]))]
    /\ UNCHANGED sanitizerFrame

\* json.loads of the serialized text on the receiving side.
Parse ==
    /\ sanitizer.payload # None
    /\ sanitizer.parsed = None
    /\ sanitizer' = [sanitizer EXCEPT
           !.parsed = Some(json_loads_str(The(sanitizer.payload)))]
    /\ UNCHANGED sanitizerFrame

NextSanitize ==
    \/ Sanitize
    \/ Serialize
    \/ Parse

SpecSanitize == InitSanitize /\ [][NextSanitize]_vars

----------------------------------------------------------------------------
(* Properties *)

Status(id) == The(Persisted(id)).status

IsTerminal(id) == Persisted(id) # None /\ Status(id) \in Terminal

\* Every record either store holds.
AllRecords ==
    {redisData[k].val.rec : k \in DOMAIN redisData}
        \cup {memory_storage[k].rec : k \in DOMAIN memory_storage}

\* The Mock output for the sanitized text of a request.
MockFor(r) ==
    IF r.mode = "translate"
    THEN _mock_translate(preprocess_text(r.text), r.source_lang, r.target_lang)
    ELSE _mock_summarize(preprocess_text(r.text))

\* The provider call of the task's execution was made and failed.
ProviderFailed(id) == ret[id] # None /\ The(ret[id]).provider_failed

\* C1: the statuses persisted for a task id are, in this order, pending, then
\* processing, then exactly one of completed or failed; no status is skipped
\* and none is followed by an earlier one.
C1_StatusSequence ==
    \A id \in TaskIds :
        \E t \in Terminal :
            /\ Len(written[id]) <= 3
            /\ written[id] = SubSeq(<<"pending", "processing", t>>, 1, Len(written[id]))

C3_PendingAfterSubmit ==
    \A id \in TaskIds :
        (pc[id] = "scheduled" /\ path[id] = "router") =>
            \A ping \in Pings(Store) : \A ok \in Calls(Store, ping) :
                LET res == get_task_result(Store, id, ping, ok)
                IN /\ res.kind = "found"
                   /\ The(res.data).task_id = id
                   /\ The(res.data).status = "pending"

\* C4: every task submitted through translate_async / summarize_async
\* reaches exactly one terminal state: when its background execution has
\* finished, exactly one terminal status has been persisted for it.
C4_ReachesTerminal ==
    \A id \in TaskIds :
        (path[id] = "router" /\ pc[id] = "done") =>
            Cardinality({i \in DOMAIN written[id] : written[id][i] \in Terminal}) = 1

\* C5: GET /api/task/{id} never raises, for any id and any store content; it
\* answers not-found or the record last persisted for that id.
C5_PollNeverRaises ==
    \A id \in TaskIds :
        \A ping \in Pings(Store) : \A ok \in Calls(Store, ping) :
            LET res == get_task_result(Store, id, ping, ok)
            IN /\ res.kind # "error"
               /\ res.kind = "found" => res.data = Persisted(id)

C7_CompletedAtIffTerminal ==
    \A t \in AllRecords : (t.completed_at # None) <=> (t.status \in Terminal)

\* C8: a synchronous call never raises; with no active adapter, and when the
\* adapter's call raises, it returns the Mock result for the sanitized text.
C8_SyncFallsBackToMock ==
    lastSync # None =>
        LET c == The(lastSync)
        IN /\ ~c.result.raised
           /\ (provider = None \/ c.result.provider_failed) => c.result.value = MockFor(c)

\* A synchronous call was answered by the Mock because the configured adapter
\* could not be constructed (its key is missing), for a text the sanitizer changes.
C8_Witness ==
    /\ lastSync # None
    /\ provider = None
    /\ config.AI_PROVIDER \in ProviderNames
    /\ preprocess_text(The(lastSync).text) # The(lastSync).text
    /\ The(lastSync).result.value = MockFor(The(lastSync))

\* C9, as stated: when the provider call of an asynchronous task fails, the
\* task's record ends in status failed with error populated.
C9_FailedOnProviderError ==
    \A id \in TaskIds :
        (ProviderFailed(id) /\ IsTerminal(id)) =>
            (Status(id) = "failed" /\ The(Persisted(id)).error # None)

\* C9, amended: when the provider call of an asynchronous task fails, the
\* failure is swallowed by AIService: failed is never persisted for the task
\* and its record never has error populated.
C9_NeverFailedOnProviderError ==
    \A id \in TaskIds :
        ProviderFailed(id) =>
            /\ \A i \in DOMAIN written[id] : written[id][i] # "failed"
            /\ Persisted(id) # None =>
                   (Status(id) # "failed" /\ The(Persisted(id)).error = None)

\* The provider call of a task failed and the task's record is completed.
C9_Witness ==
    \E id \in TaskIds : ProviderFailed(id) /\ IsTerminal(id) /\ Status(id) = "completed"

\* C10: in background execution a provider error is converted to a Mock
\* result: the terminal record of the task is completed, its result is the
\* Mock output for the sanitized text, and no error is recorded on it.
C10_ProviderErrorBecomesMock ==
    \A id \in TaskIds :
        (path[id] = "router" /\ ProviderFailed(id) /\ IsTerminal(id)) =>
            /\ Status(id) = "completed"
            /\ The(Persisted(id)).result = Some(MockFor(The(req[id])))
            /\ The(Persisted(id)).error = None

\* A task whose provider call failed holds the Mock output of a text the
\* sanitizer changes.
C10_Witness ==
    \E id \in TaskIds :
        /\ path[id] = "router" /\ ProviderFailed(id) /\ IsTerminal(id)
        /\ preprocess_text(The(req[id]).text) # The(req[id]).text
        /\ The(Persisted(id)).result = Some(MockFor(The(req[id])))

\* C11: when the adapter fails after at least one of its fragments has been
\* relayed, the caller receives nothing after the fragments produced before
\* the failure but an error terminator: no chunk event follows the failure and
\* the stream does not end with the completion event.
C11_ErrorTerminatesStream ==
    (stream.failedAfter # None /\ The(stream.failedAfter).events >= 2) =>
        /\ \A i \in DOMAIN stream.events :
               i > The(stream.failedAfter).events => stream.events[i].type = "error"
        /\ stream.pc = "closed" => stream.events[Len(stream.events)].type = "error"

\* C12: background execution never raises to its scheduler, and when an
\* exception was raised while executing, the finished task's record has
\* status failed with error populated.
C12_ExecutionFailureRecorded ==
    \A id \in TaskIds :
        /\ pc[id] # "escaped"
        /\ (pc[id] = "done" /\ ret[id] # None /\ The(ret[id]).raised) =>
               /\ Persisted(id) # None
               /\ Status(id) = "failed"
               /\ The(Persisted(id)).error # None

\* C13: with the Mock adapter, for every text and language pair, the
\* fragments of the streamed translation, concatenated in order and trimmed,
\* are the text of the non-streamed Mock translation of the sanitized text,
\* and the full_result of the completion event is that text.
C13_MockStreamReassembles ==
    (provider = None /\ stream.pc = "closed" /\ The(stream.request).mode = "translate") =>
        LET r == The(stream.request)
            expected == _mock_translate(preprocess_text(r.text), r.source_lang, r.target_lang)
            last == stream.events[Len(stream.events)]
        IN /\ Strip(Concat(stream.yielded)) = expected
           /\ last.type = "done"
           /\ last.full_result = expected

\* C14: create_provider returns the adapter of the resolved name (the
\* argument if given, else the configured provider) exactly when that name is
\* openai, claude or qianwen and its credential is non-empty; any other name
\* fails with the unsupported-provider error, an empty or unset credential
\* with the missing-credential error, and a failed selection returns no
\* adapter.
C14_SelectByNameAndCredential ==
    lastCreate # None =>
        LET name == IF The(lastCreate).provider_name = None
                    THEN config.AI_PROVIDER
                    ELSE The(The(lastCreate).provider_name)
            r == The(lastCreate).result
            supported == name \in {"openai", "claude", "qianwen"}
            credential == ApiKey(config, name)
            nonEmpty == credential # None /\ Len(The(credential)) > 0
        IN /\ (~r.raised /\ r.value = name) <=> (supported /\ nonEmpty)
           /\ ~supported => (r.raised /\ r.value = "ValueError-unsupported-provider")
           /\ (supported /\ ~nonEmpty) => (r.raised /\ r.value = "ValueError-API-key-not-set")
           /\ r.raised => r.value \notin ProviderNames

\* An explicit argument overrode a different configured provider and its
\* adapter was returned.
C14_Witness ==
    /\ lastCreate # None
    /\ The(lastCreate).provider_name = Some("openai")
    /\ config.AI_PROVIDER = "claude"
    /\ ~The(lastCreate).result.raised
    /\ The(lastCreate).result.value = "openai"

\* C15, as stated: once any selection has occurred, the credential status
\* has been logged exactly once, whether the selections succeeded or failed.
C15_LoggedExactlyOnce ==
    selections >= 1 => Len(api_key_log) = 1

\* C15, amended: the credential status is logged at most once: a selection
\* logs it exactly when nothing has been logged yet and the resolved name is a
\* supported provider (whether or not the selection then succeeds); a
\* selection of an unsupported name logs nothing.
C15_LoggedAtFirstSupportedSelection ==
    [][selections' = selections + 1 =>
          LET name == IF The(lastCreate').provider_name = None
                      THEN config.AI_PROVIDER
                      ELSE The(The(lastCreate').provider_name)
          IN Len(api_key_log') =
                 IF Len(api_key_log) = 0 /\ name \in {"openai", "claude", "qianwen"}
                 THEN 1 ELSE Len(api_key_log)]_vars

\* Several selections have occurred, the latest one failed for a missing
\* credential, and the status has been logged once.
C15_Witness ==
    /\ selections >= 2
    /\ Len(api_key_log) = 1
    /\ The(lastCreate).result.raised
    /\ The(lastCreate).result.value = "ValueError-API-key-not-set"

\* C16: for every configured credential, the text logged for it is strictly
\* shorter than the credential.
C16_LogHidesSecret ==
    \A i \in DOMAIN api_key_log : \A n \in ProviderNames :
        api_key_log[i][n] # None =>
            Len(The(api_key_log[i][n])) < Len(The(ApiKey(config, n)))

\* C17: the synchronous and the streaming operations leave the task store
\* unchanged: no step of them creates a record, writes to either store or
\* initialises the store client.
C17_SyncAndStreamLeaveStore ==
    [][(lastSync' # lastSync \/ stream' # stream) =>
          /\ client' = client
          /\ redisData' = redisData
          /\ memory_storage' = memory_storage
          /\ written' = written]_vars

\* A streaming response has been served to its end after the adapter failed
\* mid-stream, and the record submitted before it is still as it was stored.
C17_Witness ==
    /\ stream.pc = "closed"
    /\ stream.failedAfter # None
    /\ Len(stream.events) > 2
    /\ client = "memory"
    /\ Persisted(1) # None /\ Status(1) = "pending"

\* C18: as long as the external store answers and no time-to-live has run
\* out, every set, set_json, get, get_json, delete and keys call returns the
\* same on the client backed by the external store and on the client that
\* fell back to the in-process map.
C18_FallbackEquivalent ==
    (twin.lastOp # None /\ ~twin.disturbed /\ twin.ext.client = "redis"
        /\ twin.fallback.client = "memory")
        => The(twin.lastOp).ext = The(twin.lastOp).fallback

\* C19: a read of a task key that no call has written for a whole
\* time-to-live finds nothing, on the client backed by the external store
\* and on the client that fell back to the in-process map.
C19_IdleRecordAbsent ==
    (twin.lastOp # None /\ The(twin.lastOp).op = "get_json"
        /\ The(twin.lastOp).key = task_key(1) /\ task_key(1) \in twin.idle)
        => /\ The(twin.lastOp).ext = None
           /\ The(twin.lastOp).fallback = None

\* C20: a write made while the external store does not answer succeeds, and
\* a read made next returns the written value, whether the store failed the
\* connection attempt or stopped answering after earlier calls succeeded.
C20_OutageFallsBackToMemory ==
    (twin.lastOp # None /\ The(twin.lastOp).outage
        /\ The(twin.lastOp).op \in {"set", "set_json"})
        => LET op == The(twin.lastOp)
               read == IF op.op = "set"
                       THEN get(twin.ext, op.key, FALSE, FALSE)
                       ELSE get_json(twin.ext, op.key, FALSE, FALSE)
           IN op.ext = TRUE /\ read = op.value

C22_SanitizeIdempotent ==
    Len(sanitizer.passes) = 2 => sanitizer.passes[2] = sanitizer.passes[1]

\* A text that the first pass changed (a run of blanks collapsed) has gone
\* through a second pass.
C22_Witness ==
    /\ Len(sanitizer.passes) = 2
    /\ The(sanitizer.input) = <<"a", "TAB", " ", "QUOTE">>
    /\ sanitizer.passes[1] = <<"a", " ", "QUOTE">>

\* C23: every text handed to the adapter or to the mock by a synchronous
\* call or by a background execution is the sanitized caller's text, and the
\* prompt a background execution builds for the provider is built from the
\* sanitized text, never from the raw text.
C23_OnlySanitizedTextHanded ==
    [][/\ \A id \in TaskIds :
            (ret'[id] # ret[id] /\ ret'[id] # None /\ path[id] = "router")
                => \A i \in DOMAIN The(ret'[id]).handed :
                      The(ret'[id]).handed[i] = preprocess_text(The(req[id]).text)
       /\ (lastSync' # lastSync /\ lastSync' # None)
                => \A i \in DOMAIN The(lastSync').result.handed :
                      The(lastSync').result.handed[i] = preprocess_text(The(lastSync').text)
       /\ \A id \in TaskIds, r \in Requests :
            ProcessTask(id, r) => Prompt(r) = Prompt([r EXCEPT !.text = preprocess_text(r.text)])
      ]_vars

\* The events of a response that end it.
TerminatorTypes == {"done", "error", "completed", "[DONE]"}

Terminators(events) == {i \in DOMAIN events : events[i].type \in TerminatorTypes}

ContentNonEmpty(events) ==
    \A i \in DOMAIN events : events[i].type = "chunk" => events[i].content # <<>>

\* C24: a finished streaming response (translate or summarize, whether or
\* not the adapter raised) has only non-empty content fragments and exactly
\* one terminator event, which is its last event.
C24_OneTerminatorLast ==
    stream.pc = "closed"
        => /\ ContentNonEmpty(stream.events)
           /\ Terminators(stream.events) = {Len(stream.events)}

\* C24, amended: every content fragment sent is non-empty, no terminator is
\* sent while fragments are still produced, and a finished response ends
\* with its terminator: for the translate stream exactly one done or error
\* event, as the last event; for the summarize stream the completed event
\* followed by the [DONE] marker, as the last two events.
C24_EndsWithTerminator ==
    /\ ContentNonEmpty(stream.events)
    /\ stream.pc \in {"provider", "mock"} => Terminators(stream.events) = {}
    /\ stream.pc = "closed" =>
          LET n == Len(stream.events)
          IN IF The(stream.request).mode = "translate"
             THEN /\ Terminators(stream.events) = {n}
                  /\ stream.events[n].type \in {"done", "error"}
             ELSE /\ Terminators(stream.events) = {n - 1, n}
                  /\ stream.events[n - 1].type = "completed"
                  /\ stream.events[n].type = "[DONE]"

\* A summarize stream whose adapter raised after a relayed fragment has
\* finished.
C24_Witness ==
    /\ stream.pc = "closed"
    /\ The(stream.request).mode = "summary"
    /\ stream.failedAfter # None
    /\ The(stream.failedAfter).events >= 2
    /\ \E i \in DOMAIN stream.yielded : Strip(stream.yielded[i]) = <<>>

\* C25: every task record held by the external store was written with the
\* configured time-to-live, whatever value the configuration gives it.
C25_WrittenWithConfiguredTtl ==
    \A k \in DOMAIN twin.ext.redis :
        k[1] = TASK_PREFIX => twin.ext.redis[k].ex = config.TASK_EXPIRE_SECONDS

\* C26: under every interleaving of the executions of tasks with distinct
\* ids, a step that changes the record of one id is a step of that id's own
\* submission, execution or expiry and leaves every other task where it
\* was; the record kept under an id carries that id; and a terminal status
\* that a task's execution stores is the one its own AI call decided.
C26_TasksIsolated ==
    [][\A id \in TaskIds :
          /\ Persisted(id)' # Persisted(id)
                => \A j \in TaskIds \ {id} :
                      /\ pc'[j] = pc[j] /\ clock'[j] = clock[j]
                      /\ written'[j] = written[j] /\ ret'[j] = ret[j]
          /\ Persisted(id)' # None => The(Persisted(id)').task_id = id
          /\ (written'[id] # written[id] /\ written'[id][Len(written'[id])] \in Terminal)
                => /\ Persisted(id)' # None
                   /\ The(Persisted(id)').status =
                         IF The(ret'[id]).raised THEN "failed" ELSE "completed"]_vars

\* Two tasks ran side by side: each finished with its own terminal record,
\* one completed and one failed, all three writes of each stored.
C26_Witness ==
    /\ \A id \in TaskIds : pc[id] = "done" /\ IsTerminal(id) /\ Len(written[id]) = 3
    /\ Status(1) = "completed"
    /\ Status(2) = "failed"

\* C27: when two executions write the record of the same task id, every
\* write that is made replaces the record whatever its current status: the
\* persisted status is then the one just written, a record written by the
\* router is exactly the record the router built, and a record written
\* through update_task is the record read with the updates applied.
C27_LastWriteWins ==
    [][\A w \in TaskIds :
          written'[w] # written[w]
             => /\ Persisted(1)' # None
                /\ The(Persisted(1)').status = written'[w][Len(written'[w])]
                /\ path[w] = "router" /\ pc'[w] = "done"
                      => The(Persisted(1)') =
                            CompletedResult(1, The(ret'[w]).value, clock[w] + 1)
                /\ path[w] = "service"
                      => The(Persisted(1)') =
                            SetAttrs(SetAttrs(The(Persisted(1)), [status |-> "processing"]),
                                     [status |-> "failed", error |-> Some(The(ret'[w]).value)])
      ]_vars

\* Both executions have finished: after the router's execution completed the
\* record, TaskService's execution wrote processing and then failed over it.
C27_Witness ==
    /\ \A w \in TaskIds : pc[w] = "done"
    /\ written[1] = <<"processing", "completed">>
    /\ written[2] = <<"processing", "failed">>
    /\ Persisted(1) # None
    /\ Status(1) = "failed"
    /\ The(Persisted(1)).result # None

\* C28: however the first calls of create_provider are interleaved, the
\* credential status is logged at most once, and at most one caller is
\* between finding the guard unset and setting it.
C28_LoggedAtMostOnce ==
    /\ Len(api_key_log) <= 1
    /\ Cardinality({c \in Callers : callers.pc[c] \in {"log", "set"}}) <= 1
    /\ (\E c \in Callers : callers.pc[c] = "set") => Len(api_key_log) = 1

\* Every caller has made its call to the end and the status was logged once.
C28_Witness ==
    /\ \A c \in Callers : callers.pc[c] = "done"
    /\ selections = MaxSelections
    /\ Len(api_key_log) = 1
    /\ _logged_api_status

\* C29: a task executed by the router's background function and a task
\* executed by TaskService's, with every write of both stored, have the same
\* sequence of persisted statuses and end with the same record fields:
\* status, result or error, and completed_at set.
C29_PathsEquivalent ==
    \A id \in TaskIds, j \in TaskIds :
        (/\ path[id] = "router" /\ path[j] = "service"
         /\ pc[id] = "done" /\ pc[j] = "done"
         /\ Len(written[id]) = 3 /\ Len(written[j]) = 3
         /\ Persisted(id) # None /\ Persisted(j) # None)
            => /\ written[id] = written[j]
               /\ The(Persisted(id)).status = The(Persisted(j)).status
               /\ (The(Persisted(id)).result = None) = (The(Persisted(j)).result = None)
               /\ (The(Persisted(id)).error = None) = (The(Persisted(j)).error = None)
               /\ The(Persisted(id)).completed_at # None
               /\ The(Persisted(j)).completed_at # None

\* The mock's answer to a synchronous call.
MockAnswer(c) ==
    IF c.mode = "translate"
    THEN _mock_translate(preprocess_text(c.text), c.source_lang, c.target_lang)
    ELSE _mock_summarize(preprocess_text(c.text))

\* C30: when the selection at service start failed (self.provider is None),
\* no later operation attempts it again: the provider stays None, no further
\* create_provider call is made, a stream is opened on the mock and yields
\* exactly the mock's fragments, and a synchronous call returns the mock's
\* answer.
C30_NoReselection ==
    [][provider = None =>
          /\ provider' = None
          /\ selections' = selections
          /\ lastCreate' = lastCreate
          /\ stream'.pc # "provider"
          /\ (stream.pc = "idle" /\ stream'.pc # "idle"
                 => /\ stream'.pc = "mock"
                    /\ stream'.pending = MockStream(The(stream'.request)))
          /\ (stream.pc # "closed" /\ stream'.pc = "closed"
                 => /\ stream'.yielded = MockStream(The(stream'.request))
                    /\ stream'.failedAfter = None)
          /\ (lastSync = None /\ lastSync' # None
                 => /\ ~The(lastSync').result.raised
                    /\ ~The(lastSync').result.provider_failed
                    /\ The(lastSync').result.value = MockAnswer(The(lastSync')))]_vars

\* A service whose selection failed at start has streamed a whole mock
\* response of at least one fragment.
C30_Witness ==
    /\ provider = None
    /\ lastCreate # None /\ The(lastCreate).result.raised
    /\ selections = 1
    /\ stream.pc = "closed"
    /\ stream.yielded # <<>>

\* C31: every set, set_json, get, get_json, delete and keys call returns a
\* value of its return type instead of raising; when the call reaches an
\* external store that does not answer, a write or delete returns False and
\* leaves the stored data as it was, a read returns None and a key listing
\* returns the empty list.
C31_StoreNeverRaises ==
    [][twin'.lastOp # None =>
          LET op == The(twin'.lastOp)
              failing == twin.ext.client = "redis" /\ ~twin.reachable
          IN /\ (op.op \in {"set", "set_json", "delete"} => op.ext \in BOOLEAN)
             /\ (op.op \in {"get", "get_json"}
                    => op.ext = None \/ op.ext = Some(The(op.ext)))
             /\ (op.op = "keys" => op.ext \subseteq StoreKeys)
             /\ (failing
                    => /\ twin'.ext.redis = twin.ext.redis
                       /\ twin'.ext.mem = twin.ext.mem
                       /\ (op.op \in {"set", "set_json", "delete"} => op.ext = FALSE)
                       /\ (op.op \in {"get", "get_json"} => op.ext = None)
                       /\ (op.op = "keys" => op.ext = {}))]_vars

\* A delete of a stored key has failed on a store that stopped answering.
C31_Witness ==
    /\ twin.lastOp # None
    /\ The(twin.lastOp).op = "delete"
    /\ The(twin.lastOp).outage
    /\ twin.ext.client = "redis"
    /\ The(twin.lastOp).key \in DOMAIN twin.ext.redis
    /\ The(twin.lastOp).ext = FALSE

\* Whether the string s contains the string t.
Contains(s, t) ==
    \E i \in 0..(Len(s) - Len(t)) : SubSeq(s, i + 1, i + Len(t)) = t

\* What follows "[moni" in the mock translation of a language pair.
Marker(source_lang, target_lang) ==
    IF source_lang = LangZh /\ target_lang = LangEn THEN "EN" ELSE target_lang

\* C32, as stated: the mock translation is the marker of the language pair
\* followed by the whole text, the mock summary contains the whole text, and
\* a second call with the same arguments returns the same string.
C32_MockEmbedsWholeText ==
    lastSync # None =>
        LET c == The(lastSync)
        IN /\ c.again = c.result
           /\ (c.mode = "translate"
                  => c.result = <<"[", "moni", Marker(c.source_lang, c.target_lang), "]", " ">>
                                    \o c.text)
           /\ (c.mode = "summary" => Contains(c.result, c.text))

\* C32, amended: the mock translation is the marker of the language pair
\* followed by the whole text; the mock summary is its tag followed by the
\* first MockSummaryLimit characters of the text, and by "..." when the text
\* is longer than that; a second call with the same arguments returns the
\* same string.
C32_MockEmbedsTextUpToLimit ==
    lastSync # None =>
        LET c == The(lastSync)
            n == Len(c.text)
        IN /\ c.again = c.result
           /\ (c.mode = "translate"
                  => c.result = <<"[", "moni", Marker(c.source_lang, c.target_lang), "]", " ">>
                                    \o c.text)
           /\ (c.mode = "summary" /\ n <= MockSummaryLimit
                  => c.result = <<"moni", "zongjie", ":", " ">> \o c.text)
           /\ (c.mode = "summary" /\ n > MockSummaryLimit
                  => c.result = <<"moni", "zongjie", ":", " ">>
                                    \o SubSeq(c.text, 1, MockSummaryLimit) \o <<".", ".", ".">>)

\* The mock has summarized a text longer than its limit.
C32_Witness ==
    /\ lastSync # None
    /\ The(lastSync).mode = "summary"
    /\ Len(The(lastSync).text) > MockSummaryLimit
    /\ Len(The(lastSync).result) = 4 + MockSummaryLimit + 3

\* The whitespace characters that do not end a line: space, tab and the
\* ideographic space.
HorizontalWhitespace == {" ", "TAB", "IDSP"}

\* The number of line ends in the whitespace that starts at position i.
NewlinesFrom(s, i) ==
    Cardinality({k \in i..(i + WhitespaceRun(SubSeq(s, i, Len(s))) - 1) : s[k] = "NL"})

\* C33: the sanitized text has only allow-listed characters, no leading or
\* trailing whitespace, no two adjacent horizontal whitespace characters,
\* and no more than one consecutive blank line (no three line ends
\* separated by whitespace only).
C33_SanitizedIsClean ==
    sanitizer.passes # <<>> =>
        LET out == sanitizer.passes[1]
        IN /\ \A i \in 1..Len(out) : out[i] \in AllowList
           /\ (out # <<>> => out[1] \notin Whitespace /\ out[Len(out)] \notin Whitespace)
           /\ \A i \in 1..(Len(out) - 1) :
                 ~(out[i] \in HorizontalWhitespace /\ out[i + 1] \in HorizontalWhitespace)
           /\ \A i \in 1..Len(out) : NewlinesFrom(out, i) <= 2

\* C34: the created_at of a task's persisted record does not change while
\* the task has a record: the writes of processing, completed and failed
\* keep the value the record had after submission.
C34_CreatedAtStable ==
    [][\A id \in TaskIds :
          (Persisted(id) # None /\ Persisted(id)' # None)
              => The(Persisted(id)').created_at = The(Persisted(id)).created_at]_vars

\* What a poll of the task id made now returns when the store answers it.
Polled(id) == {get_task_result(Store, id, ping, TRUE) : ping \in Pings(Store)}

\* The order pending, processing, terminal.
Rank(status) == IF status = "pending" THEN 1 ELSE IF status = "processing" THEN 2 ELSE 3

\* C35: of a poll made before a step and a poll made after it, the later
\* one never finds an earlier status, and when a record of the id had been
\* stored and the earlier poll returns not-found, so does the later one.
C35_PollsNeverGoBack ==
    [][\A id \in TaskIds :
          \A a \in Polled(id) : \A b \in Polled(id)' :
              /\ (a.kind = "found" /\ b.kind = "found")
                    => Rank(The(b.data).status) >= Rank(The(a.data).status)
              /\ (written[id] # <<>> /\ a.kind = "not_found") => b.kind = "not_found"]_vars

\* C36: TaskService's background function run for a task whose record is
\* absent (never stored, or expired) changes no stored data, stores no
\* status and lets no exception escape, so its transitions are lost; and an
\* update_task whose read the external store fails raises nothing and
\* calls no write.
C36_UpdateOfMissingIsNoOp ==
    [][\A id \in TaskIds :
          /\ (pc[id] = "scheduled" /\ path[id] = "service" /\ pc'[id] # "scheduled"
                 /\ Persisted(id) = None)
                => /\ redisData' = redisData
                   /\ memory_storage' = memory_storage
                   /\ written'[id] = written[id]
                   /\ pc'[id] = "done"
          /\ \A ping \in Pings(Store), okSet \in BOOLEAN :
                Reaches(Store, ping)
                    => LET r == update_task(Store, id, [status |-> "processing"], ping, FALSE, okSet)
                       IN ~r.raised /\ ~r.wrote /\ ~r.stored /\ r.S = _initialize(Store, ping)]_vars

\* TaskService's background function has run for a task whose pending
\* record had expired: no transition was stored and no record exists.
C36_Witness ==
    \E id \in TaskIds :
        /\ path[id] = "service" /\ pc[id] = "done"
        /\ written[id] = <<"pending">>
        /\ failures = 0
        /\ client = "redis"
        /\ Persisted(id) = None

====
